---- MODULE Spec2Model ----
(***************************************************************************)
(* Hopfield network relaxation engine (hmcalister/Hopfield-Network-Rust).  *)
(*                                                                         *)
(* The engine owns a weight matrix, the relaxation limits and one RNG.     *)
(* update_state performs one asynchronous sweep, relax_state repeats       *)
(* sweeps, concurrent_relax_state_collection relaxes a batch on worker     *)
(* threads that report over an unbounded mpsc channel.                     *)
(*                                                                         *)
(* Weights and unit values are small integers (exact in f64).  A state is  *)
(* a sequence indexed 1..n; a unit index u of the code (0-based) is the    *)
(* position u + 1.  StdRng is a deterministic generator: its state is a    *)
(* number below RngMod and every draw is a function of that state.         *)
(***************************************************************************)
EXTENDS Integers, Sequences, FiniteSets, TLC

\* ------------------------------------------------------------- bounds
MaxIter == 2
MaxUnstable == 1
MaxBatch == 2
MaxThreads == 2
RngMod == 8

\* ------------------------------------------------------------- helpers
\* Sequences are built element by element, so that every vector is a tuple.
\* A value the code binds with let and uses more than once is bound the same way
\* here, as the one element of a set (x \in {e}).
RECURSIVE SumSeq(_)
SumSeq(s) == IF s = <<>> THEN 0 ELSE Head(s) + SumSeq(Tail(s))

\* a.component_mul(b)
RECURSIVE component_mul(_, _)
component_mul(a, b) ==
    IF a = <<>> THEN <<>>
    ELSE <<Head(a) * Head(b)>> \o component_mul(Tail(a), Tail(b))

\* a.scale(c)
RECURSIVE scale(_, _)
scale(a, c) == IF a = <<>> THEN <<>> ELSE <<c * Head(a)>> \o scale(Tail(a), c)

\* row * vector of DMatrix * DVector
RowDot(row, vector) == SumSeq(component_mul(row, vector))

\* nalgebra panics when the operand shapes do not agree
MulDefined(matrix, vector) == Len(vector) = Len(matrix)

\* &matrix * &state
RECURSIVE MatVec(_, _)
MatVec(matrix, vector) ==
    IF matrix = <<>> THEN <<>>
    ELSE <<RowDot(Head(matrix), vector)>> \o MatVec(Tail(matrix), vector)

\* ------------------------------------------------------------- activation
RECURSIVE binary_activation_inverted(_)
binary_activation_inverted(vector) ==
    IF vector = <<>> THEN <<>>
    ELSE <<IF Head(vector) <= 0 THEN 1 ELSE 0>>
         \o binary_activation_inverted(Tail(vector))

RECURSIVE binary_activation_function(_)
binary_activation_function(vector) ==
    IF vector = <<>> THEN <<>>
    ELSE <<IF Head(vector) <= 0 THEN 0 ELSE 1>> \o binary_activation_function(Tail(vector))

RECURSIVE bipolar_activation_inverted(_)
bipolar_activation_inverted(vector) ==
    IF vector = <<>> THEN <<>>
    ELSE <<IF Head(vector) <= 0 THEN 1 ELSE -1>>
         \o bipolar_activation_inverted(Tail(vector))

RECURSIVE bipolar_activation_function(_)
bipolar_activation_function(vector) ==
    IF vector = <<>> THEN <<>>
    ELSE <<IF Head(vector) <= 0 THEN -1 ELSE 1>>
         \o bipolar_activation_function(Tail(vector))

identity_activation_function(vector) == vector

activation_fn(d, vector) ==
    CASE d = "Binary" -> binary_activation_function(vector)
      [] d = "Bipolar" -> bipolar_activation_function(vector)
      [] d = "Continuous" -> identity_activation_function(vector)

\* ------------------------------------------------------------- energy
state_energy_halved(m, vector) ==
    (-1 * SumSeq(component_mul(MatVec(m, vector), vector))) \div 2

state_energy_function(m, vector) ==
    -1 * SumSeq(component_mul(MatVec(m, vector), vector))

all_unit_energies(m, vector) == component_mul(scale(MatVec(m, vector), -1), vector)

unit_energy_function(m, vector, index) ==
    -1 * (RowDot(m[index + 1], vector) * vector[index + 1])

\* the fold of relax_state: the number of units with energy > 0
RECURSIVE FoldUnstable(_, _)
FoldUnstable(energies, acc) ==
    IF energies = <<>> THEN acc
    ELSE FoldUnstable(Tail(energies), IF Head(energies) > 0 THEN acc + 1 ELSE acc)

UnstableUnits(m, vector) == FoldUnstable(all_unit_energies(m, vector), 0)

\* the break test of the relaxation loop
StopsEarlyLe(unstable_units, maximum) == unstable_units <= maximum

StopsEarly(unstable_units, maximum) == unstable_units < maximum

\* ------------------------------------------------------------- rng
\* StdRng: one step of the generator
RngStep(s) == (5 * s + 3) % RngMod

\* the index below ubound a shuffle draws in generator state s
gen_index(s, ubound) == (s \div 2) % ubound

\* rng.next_u64(): the value drawn in generator state s
next_u64(s) == (3 * s + 1) % RngMod

\* StdRng::seed_from_u64
seed_from_u64(seed) == (7 * seed + 2) % RngMod

SwapCopy(list, i, j) == [list EXCEPT ![i] = list[j]]

\* slice.swap(i, j), on positions
Swap(list, i, j) == [list EXCEPT ![i] = list[j], ![j] = list[i]]

\* SliceRandom::shuffle: for i in (1..len).rev() { swap(i, gen_index(rng, i + 1)) }
RECURSIVE ShuffleFrom(_, _, _)
ShuffleFrom(list, s, i) ==
    IF i < 1 THEN [list |-> list, rng |-> s]
    ELSE ShuffleFrom(Swap(list, i + 1, gen_index(s, i + 1) + 1), RngStep(s), i - 1)

Shuffle(list, s) == ShuffleFrom(list, s, Len(list) - 1)

\* (0..dimension - 1).collect(): the last unit is left out
RECURSIVE get_unit_indices_short(_)
get_unit_indices_short(n) ==
    IF n <= 1 THEN <<>> ELSE Append(get_unit_indices_short(n - 1), n - 2)

\* (0..dimension).collect()
RECURSIVE get_unit_indices(_)
get_unit_indices(n) == IF n = 0 THEN <<>> ELSE Append(get_unit_indices(n - 1), n - 1)

\* ------------------------------------------------------------- sweep
\* one iteration of the loop over unit_indices
UnitUpdate(m, d, st, unit_index) ==
    [st EXCEPT ![unit_index + 1] = activation_fn(d, MatVec(m, st))[unit_index + 1]]

\* the loop over unit_indices, in the given visit order
\* the synchronous update: every unit from the state the sweep started with
SynchronousSweep(m, d, st, order) == activation_fn(d, MatVec(m, st))

RECURSIVE Sweep(_, _, _, _)
Sweep(m, d, st, order) ==
    IF order = <<>> THEN st
    ELSE CHOOSE swept \in {Sweep(m, d, updated, Tail(order)) :
                            updated \in {UnitUpdate(m, d, st, Head(order))}} : TRUE

\* shuffle the index list with generator state s, then sweep in that order; the
\* multiplication panics on a state of the wrong length (the shuffle has been done)
ShuffledSweep(m, d, s, st, indices) ==
    LET sh == Shuffle(indices, s)
    IN  [state |-> IF MulDefined(m, st) THEN Sweep(m, d, st, sh.list) ELSE st,
         rng |-> sh.rng,
         unit_indices |-> sh.list,
         panicked |-> ~MulDefined(m, st)]

\* update_state: a fresh index list is shuffled with the engine's rng
update_state(m, d, s, st) == ShuffledSweep(m, d, s, st, get_unit_indices(Len(m)))

\* one iteration of relax_state's loop: the sweep, then the break test
RelaxIteration(m, d, max_unstable, s, st) ==
    LET u == update_state(m, d, s, st)
    IN  [state |-> u.state, rng |-> u.rng, panicked |-> u.panicked,
         break |-> IF u.panicked THEN FALSE
                   ELSE StopsEarly(UnstableUnits(m, u.state), max_unstable)]

\* relax_state as a function: the state returned, the engine rng afterwards, the
\* number of sweeps performed
RECURSIVE RelaxLoop(_, _, _, _, _, _, _)
RelaxLoop(m, d, max_iterations, max_unstable, s, st, done) ==
    IF done >= max_iterations
    THEN [state |-> st, rng |-> s, sweeps |-> done, panicked |-> FALSE]
    ELSE LET it == RelaxIteration(m, d, max_unstable, s, st)
         IN  IF it.panicked
             THEN [state |-> st, rng |-> it.rng, sweeps |-> done, panicked |-> TRUE]
             ELSE IF it.break
             THEN [state |-> it.state, rng |-> it.rng, sweeps |-> done + 1,
                   panicked |-> FALSE]
             ELSE RelaxLoop(m, d, max_iterations, max_unstable, it.rng, it.state, done + 1)

relax_state(m, d, max_iterations, max_unstable, s, st) ==
    RelaxLoop(m, d, max_iterations, max_unstable, s, st, 0)

\* ------------------------------------------------------------- batch helpers
\* thread_states[index % threads].push((index, state)), for the states from
\* position index on; threads >= 1
RECURSIVE PartitionFrom(_, _, _, _)
PartitionFrom(states, n_threads, index, acc) ==
    IF index >= Len(states) THEN acc
    ELSE PartitionFrom(states, n_threads, index + 1,
            [acc EXCEPT ![(index % n_threads) + 1] =
                Append(@, <<index, states[index + 1]>>)])

\* thread_states after the loop that pushes one empty Vec per thread
RECURSIVE EmptyThreadStates(_)
EmptyThreadStates(n_threads) ==
    IF n_threads = 0 THEN <<>> ELSE Append(EmptyThreadStates(n_threads - 1), <<>>)

\* every state pushed to the first thread's Vec
PartitionAllToFirst(states, n_threads) ==
    PartitionFrom(states, 1, 0, EmptyThreadStates(n_threads))

Partition(states, n_threads) ==
    PartitionFrom(states, n_threads, 0, EmptyThreadStates(n_threads))

\* sort_unstable_by_key(|k| k.0): the keys of the collection are distinct
RECURSIVE InsertByKey(_, _)
InsertByKey(sorted, x) ==
    IF sorted = <<>> THEN <<x>>
    ELSE IF x[1] < Head(sorted)[1] THEN <<x>> \o sorted
    ELSE <<Head(sorted)>> \o InsertByKey(Tail(sorted), x)

RECURSIVE SortByKeyFrom(_, _)
SortByKeyFrom(collection, acc) ==
    IF collection = <<>> THEN acc
    ELSE SortByKeyFrom(Tail(collection), InsertByKey(acc, Head(collection)))

Unsorted(collection) == collection

sort_unstable_by_key(collection) == SortByKeyFrom(collection, <<>>)

\* into_iter().map(|i| i.1).collect()
RECURSIVE MapSecond(_)
MapSecond(collection) ==
    IF collection = <<>> THEN <<>>
    ELSE <<Head(collection)[2]>> \o MapSecond(Tail(collection))

\* ------------------------------------------------------------- state
VARIABLES
    matrix,                             \* HopfieldNetwork.matrix
    domain,                             \* HopfieldNetwork.domain (selects activation_fn)
    maximum_relaxation_iterations,
    maximum_relaxation_unstable_units,
    force_symmetric,                    \* HopfieldNetwork.force_symmetric
    force_zero_diagonal,                \* HopfieldNetwork.force_zero_diagonal
    builder,                            \* the HopfieldNetworkBuilder
    prior_matrix,                       \* the matrix before the last clean_matrix
    cleaned,                            \* clean_matrix has been called
    rng,                                \* HopfieldNetwork.rng
    op,                                 \* the operation called on the engine
    pc,                                 \* where the caller's thread is in it
    input,                              \* update_state / relax_state: the argument
    state,                              \* relax_state: the working state
    sweeps,                             \* relax_state: sweeps performed so far
    state_collection,                   \* batch call: the argument
    threads,                            \* batch call: the argument
    thread_states,                      \* batch call: the partition
    thread_index,                       \* batch call: the spawn loop counter
    worker,                             \* batch call: the spawned threads
    channel,                            \* batch call: the mpsc channel's queue
    state_result_collection,            \* batch call: what the collector has received
    output,                             \* the value returned
    rng_at_call,                        \* the engine rng when the operation was called
    generator_builder,                  \* the StateGeneratorBuilder
    generator,                          \* the StateGenerator it has built
    gen_pc,                             \* where the owner of the generator is
    generated                           \* the state next_state has returned

engine_vars == <<matrix, domain, maximum_relaxation_iterations,
                 maximum_relaxation_unstable_units, force_symmetric,
                 force_zero_diagonal, builder, prior_matrix, cleaned>>

seq_vars == <<input, state, sweeps>>

generator_vars == <<generator_builder, generator, gen_pc, generated>>

batch_vars == <<state_collection, threads, thread_states, thread_index, worker,
                channel, state_result_collection>>

vars == <<matrix, domain, maximum_relaxation_iterations,
          maximum_relaxation_unstable_units, force_symmetric, force_zero_diagonal,
          builder, prior_matrix, cleaned, rng, op, pc, input, state, sweeps,
          state_collection, threads, thread_states, thread_index, worker, channel,
          state_result_collection, output, rng_at_call, generator_builder,
          generator, gen_pc, generated>>

dimension == Len(matrix)

Workers == 0..(MaxThreads - 1)

\* ------------------------------------------------------------- inputs
Weights == {-1, 0, 1}

\* the sequence of n copies of v
RECURSIVE Repeat(_, _)
Repeat(n, v) == IF n <= 0 THEN <<>> ELSE Append(Repeat(n - 1, v), v)

\* DMatrix::zeros(dimension, dimension)
ZeroMatrix(n) == Repeat(n, Repeat(n, 0))

Matrices2 == [1..2 -> [1..2 -> Weights]]

\* the networks of the sequential runs: every 2 x 2 matrix over Weights for the two
\* discrete domains, the zero matrix of dimension 4, one continuous network
SeqNetworks ==
    {[matrix |-> m, domain |-> d] : m \in Matrices2, d \in {"Binary", "Bipolar"}}
    \cup {[matrix |-> ZeroMatrix(4), domain |-> d] : d \in {"Binary", "Bipolar"}}
    \cup {[matrix |-> <<<<0, 1>>, <<1, 0>>>>, domain |-> "Continuous"]}

\* the networks of the batch runs
BatchNetworks ==
    {[matrix |-> <<<<0, 1>>, <<-1, 0>>>>, domain |-> "Bipolar"],
     [matrix |-> <<<<-1, 1>>, <<1, 0>>>>, domain |-> "Binary"]}

UnitValues(d) ==
    CASE d = "Binary" -> {0, 1}
      [] d = "Bipolar" -> {-1, 1}
      [] d = "Continuous" -> {-1, 0, 1}

DomainStates(n, d) == [1..n -> UnitValues(d)]

\* a vector one component short: the matrix product panics on it
ShortState(n) == Repeat(n - 1, 1)

InputStates(n, d) == DomainStates(n, d) \cup {ShortState(n)}

\* the states batches are made of
BatchStates(n, d) ==
    {Repeat(n, 1), <<1>> \o Repeat(n - 1, IF d = "Binary" THEN 0 ELSE -1),
     ShortState(n)}

Batches(n, d) == UNION {[1..k -> BatchStates(n, d)] : k \in 0..MaxBatch}

\* vectors of the right length whose components need not be values of the domain
AnyStates(n) == [1..n -> -2..2]

\* batches of vectors that are not states of either discrete domain
AnyBatchStates(n) == {Repeat(n, 2), <<-2>> \o Repeat(n - 1, 0)}

AnyBatches(n) == UNION {[1..k -> AnyBatchStates(n)] : k \in 0..MaxBatch}

\* the networks of the runs on such vectors
AnyInputNetworks ==
    BatchNetworks \cup {[matrix |-> ZeroMatrix(2), domain |-> "Bipolar"]}

NoWorker ==
    [pc |-> "unspawned", rng_seed |-> 0, rng |-> 0, unit_indices |-> <<>>,
     state_collection |-> <<>>, state_index |-> 0, state |-> <<>>, iteration |-> 0]

\* no thread is spawned yet
RECURSIVE NoWorkers(_)
NoWorkers(k) ==
    IF k <= 1 THEN (0 :> NoWorker) ELSE NoWorkers(k - 1) @@ ((k - 1) :> NoWorker)

\* ------------------------------------------------------------- builder
\* new_state_generator_builder(): the default values
new_state_generator_builder ==
    [random_lower_bound |-> -1, random_upper_bound |-> 1, generator_seed |-> 0,
     dimension |-> 0, domain |-> "Unspecified"]

\* no generator is built yet
NoGenerator ==
    [rng |-> 0, rng_seed |-> 0, random_lower_bound |-> 0, random_upper_bound |-> 0,
     dimension |-> 0, domain |-> "Unspecified"]

\* a fresh state generator builder
InitGenerator ==
    /\ generator_builder = new_state_generator_builder
    /\ generator = NoGenerator
    /\ gen_pc = "builder"
    /\ generated = <<>>

Domains == {"Unspecified", "Binary", "Bipolar", "Continuous"}

\* new_hopfield_network_builder(): the default values; the default of 100
\* iterations is capped at the bound MaxIter
new_hopfield_network_builder ==
    [rand_matrix_init |-> FALSE, dimension |-> 0, force_symmetric |-> TRUE,
     force_zero_diagonal |-> TRUE, domain |-> "Unspecified",
     maximum_relaxation_unstable_units |-> 0,
     maximum_relaxation_iterations |-> MaxIter]

\* the builder a network of the given matrix and domain was built from
BuilderOf(net, iterations, unstable_units) ==
    [rand_matrix_init |-> net.matrix # ZeroMatrix(Len(net.matrix)),
     dimension |-> Len(net.matrix), force_symmetric |-> TRUE,
     force_zero_diagonal |-> TRUE, domain |-> net.domain,
     maximum_relaxation_unstable_units |-> unstable_units,
     maximum_relaxation_iterations |-> iterations]

\* the state after build() has returned a network
InitWith(networks) ==
    /\ maximum_relaxation_iterations \in 0..MaxIter
    /\ maximum_relaxation_unstable_units \in 0..MaxUnstable
    /\ \E net \in networks :
        /\ matrix = net.matrix
        /\ domain = net.domain
        /\ builder = BuilderOf(net, maximum_relaxation_iterations,
                               maximum_relaxation_unstable_units)
    /\ force_symmetric = builder.force_symmetric
    /\ force_zero_diagonal = builder.force_zero_diagonal
    /\ prior_matrix = <<>>
    /\ cleaned = FALSE
    /\ rng \in 0..(RngMod - 1)
    /\ op = "none"
    /\ pc = "idle"
    /\ input = <<>>
    /\ state = <<>>
    /\ sweeps = 0
    /\ state_collection = <<>>
    /\ threads = 0
    /\ thread_states = <<>>
    /\ thread_index = 0
    /\ worker = NoWorkers(MaxThreads)
    /\ channel = <<>>
    /\ state_result_collection = <<>>
    /\ output = <<>>
    /\ rng_at_call = rng
    /\ InitGenerator

Init == InitWith(BatchNetworks)

InitSeq == InitWith(SeqNetworks)

\* ------------------------------------------------------------- update_state
\* the caller passes a state to update_state
CallUpdateStateOf(states) ==
    /\ pc = "idle"
    /\ \E st \in states :
        LET u == update_state(matrix, domain, rng, st)
        IN  /\ op' = "update_state"
            /\ input' = st
            /\ rng' = u.rng
            /\ sweeps' = IF u.panicked THEN 0 ELSE 1
            /\ pc' = IF u.panicked THEN "failed" ELSE "returned"
            /\ output' = IF u.panicked THEN <<>> ELSE u.state
            /\ state' = u.state
    /\ rng_at_call' = rng
    /\ UNCHANGED <<engine_vars, generator_vars, batch_vars>>

CallUpdateState == CallUpdateStateOf(InputStates(dimension, domain))

\* ------------------------------------------------------------- relax_state
\* the caller passes a state to relax_state; with no iteration to run the state is
\* returned as it is
CallRelaxStateOf(states) ==
    /\ pc = "idle"
    /\ \E st \in states :
        /\ input' = st
        /\ state' = st
        /\ output' = IF maximum_relaxation_iterations > 0 THEN <<>> ELSE st
    /\ op' = "relax_state"
    /\ sweeps' = 0
    /\ pc' = IF maximum_relaxation_iterations > 0 THEN "relax" ELSE "returned"
    /\ rng_at_call' = rng
    /\ UNCHANGED <<engine_vars, generator_vars, rng, batch_vars>>

CallRelaxState == CallRelaxStateOf(InputStates(dimension, domain))

\* one iteration of the loop of relax_state: update_state, the count of unstable
\* units, the break, and the return once the loop is over
RelaxSweep ==
    /\ pc = "relax"
    /\ sweeps < maximum_relaxation_iterations
    /\ LET it == RelaxIteration(matrix, domain, maximum_relaxation_unstable_units,
                                rng, state)
           over == it.break \/ sweeps + 1 >= maximum_relaxation_iterations
       IN  /\ rng' = it.rng
           /\ state' = it.state
           /\ sweeps' = IF it.panicked THEN sweeps ELSE sweeps + 1
           /\ pc' = IF it.panicked THEN "failed"
                    ELSE IF over THEN "returned" ELSE "relax"
           /\ output' = IF ~it.panicked /\ over THEN it.state ELSE output
    /\ UNCHANGED <<engine_vars, generator_vars, op, input, batch_vars, rng_at_call>>

\* ------------------------------------------------------------- batch call
\* the partition fails for threads = 0 whatever the batch
PartitionPanicsOnEmpty(states, n_threads) == n_threads = 0

\* thread_states[index % threads] panics with threads = 0 and a state to place
PartitionPanics(states, n_threads) == n_threads = 0 /\ Len(states) > 0

\* the caller passes a batch and a thread count: the partition of the batch
CallConcurrentOf(batches) ==
    /\ pc = "idle"
    /\ \E batch \in batches, n_threads \in 0..MaxThreads :
        /\ state_collection' = batch
        /\ threads' = n_threads
        /\ thread_states' = IF PartitionPanics(batch, n_threads) THEN <<>>
                            ELSE Partition(batch, n_threads)
        /\ pc' = IF PartitionPanics(batch, n_threads) THEN "failed" ELSE "spawn"
    /\ op' = "concurrent_relax_state_collection"
    /\ thread_index' = 0
    /\ rng_at_call' = rng
    /\ UNCHANGED <<engine_vars, generator_vars, rng, seq_vars, worker, channel,
                   state_result_collection, output>>

CallConcurrent == CallConcurrentOf(Batches(dimension, domain))

SpawnSeedRaw(s) == s

\* the seed of the next worker: one draw of the engine's rng
SpawnSeed(s) == next_u64(s)

\* one iteration of the spawn loop: the worker gets a seed, its share of the batch
\* and a fresh index list, and starts to run
Spawn ==
    /\ pc = "spawn"
    /\ thread_index < threads
    /\ worker' = [worker EXCEPT ![thread_index] =
            [pc |-> "start",
             rng_seed |-> SpawnSeed(rng),
             rng |-> 0,
             unit_indices |-> get_unit_indices(dimension),
             state_collection |-> thread_states[thread_index + 1],
             state_index |-> 0,
             state |-> <<>>,
             iteration |-> 0]]
    /\ rng' = RngStep(rng)
    /\ thread_index' = thread_index + 1
    /\ UNCHANGED <<engine_vars, generator_vars, op, pc, seq_vars, state_collection, threads,
                   thread_states, channel, state_result_collection, output,
                   rng_at_call>>

Terminated(w) == worker[w].pc \in {"done", "panicked"}

Spawned == {w \in Workers : worker[w].pc # "unspawned"}

ScopeNeverWaits == TRUE

\* crossbeam::scope returns once every thread spawned in it has terminated
ScopeJoined == \A w \in Spawned : Terminated(w)

ScopeAlwaysOk == FALSE

\* crossbeam::scope returns Err when a thread of the scope has panicked
ScopeErr == \E w \in Spawned : worker[w].pc = "panicked"

\* the end of the scope: every worker is joined, and unwrap() panics on Err
ScopeEnd ==
    /\ pc = "spawn"
    /\ thread_index >= threads
    /\ ScopeJoined
    /\ pc' = IF ScopeErr THEN "failed" ELSE "recv"
    /\ UNCHANGED <<engine_vars, generator_vars, rng, op, seq_vars, batch_vars, output, rng_at_call>>

\* one iteration of the receive loop: recv() blocks while the queue is empty
Recv ==
    /\ pc = "recv"
    /\ Len(state_result_collection) < Len(state_collection)
    /\ channel # <<>>
    /\ state_result_collection' = Append(state_result_collection, Head(channel))
    /\ channel' = Tail(channel)
    /\ UNCHANGED <<engine_vars, generator_vars, rng, op, pc, seq_vars, state_collection, threads,
                   thread_states, thread_index, worker, output, rng_at_call>>

\* the receive loop is over: sort by index, return the states
Return ==
    /\ pc = "recv"
    /\ Len(state_result_collection) >= Len(state_collection)
    /\ output' = MapSecond(sort_unstable_by_key(state_result_collection))
    /\ pc' = "returned"
    /\ UNCHANGED <<engine_vars, generator_vars, rng, op, seq_vars, batch_vars, rng_at_call>>

\* ------------------------------------------------------------- worker thread
\* the head of the loop over the worker's states: the next state, or the end
NextState(rec, rest) ==
    IF rest = <<>>
    THEN [rec EXCEPT !.pc = "exit", !.state_collection = <<>>]
    ELSE [rec EXCEPT !.pc = IF maximum_relaxation_iterations > 0
                            THEN "sweep" ELSE "send",
                     !.state_collection = Tail(rest),
                     !.state_index = Head(rest)[1],
                     !.state = Head(rest)[2],
                     !.iteration = 0]

\* the worker seeds its rng and enters the loop over its states
WorkerStart(w) ==
    /\ worker[w].pc = "start"
    /\ worker' = [worker EXCEPT ![w] =
            NextState([worker[w] EXCEPT !.rng = seed_from_u64(worker[w].rng_seed)],
                      worker[w].state_collection)]
    /\ UNCHANGED <<engine_vars, generator_vars, rng, op, pc, seq_vars, state_collection, threads,
                   thread_states, thread_index, channel, state_result_collection,
                   output, rng_at_call>>

WorkerStopsEarlyLe(unstable_units, maximum) == unstable_units <= maximum

\* the break test of the worker's relaxation loop
WorkerStopsEarly(unstable_units, maximum) == unstable_units < maximum

\* the worker after the sweep sw of its state: the unstable units counted, the
\* break test, or the panic of the multiplication
WorkerAfterSweep(rec, sw) ==
    LET over == \/ WorkerStopsEarly(UnstableUnits(matrix, sw.state),
                                    maximum_relaxation_unstable_units)
                \/ rec.iteration + 1 >= maximum_relaxation_iterations
    IN  IF sw.panicked
        THEN [rec EXCEPT !.pc = "panicked", !.rng = sw.rng,
                         !.unit_indices = sw.unit_indices]
        ELSE [rec EXCEPT !.pc = IF over THEN "send" ELSE "sweep",
                         !.rng = sw.rng,
                         !.unit_indices = sw.unit_indices,
                         !.state = sw.state,
                         !.iteration = rec.iteration + 1]

\* one iteration of the worker's relaxation loop: the index list is shuffled in
\* place, the state swept, the unstable units counted
WorkerIteration(rec) ==
    CHOOSE after \in {WorkerAfterSweep(rec, sw) :
                       sw \in {ShuffledSweep(matrix, domain, rec.rng, rec.state,
                                              rec.unit_indices)}} : TRUE

\* a sweep whose shuffle draws from the engine's rng as well
WorkerSweepSharedRng(w) ==
    /\ worker[w].pc = "sweep"
    /\ worker' = [worker EXCEPT ![w] = WorkerIteration(worker[w])]
    /\ rng' = RngStep(rng)
    /\ UNCHANGED <<engine_vars, generator_vars, op, pc, seq_vars, state_collection,
                   threads, thread_states, thread_index, channel,
                   state_result_collection, output, rng_at_call>>

WorkerSweep(w) ==
    /\ worker[w].pc = "sweep"
    /\ worker' = [worker EXCEPT ![w] = WorkerIteration(worker[w])]
    /\ UNCHANGED <<engine_vars, generator_vars, rng, op, pc, seq_vars, state_collection, threads,
                   thread_states, thread_index, channel, state_result_collection,
                   output, rng_at_call>>

SendRoomOne(queue) == Len(queue) < 1

\* mpsc::channel() is unbounded: send never waits for room
SendRoom(queue) == TRUE

\* the relaxed state is sent with its index; the worker goes on to its next state
WorkerSend(w) ==
    /\ worker[w].pc = "send"
    /\ SendRoom(channel)
    /\ channel' = Append(channel, <<worker[w].state_index, worker[w].state>>)
    /\ worker' = [worker EXCEPT ![w] = NextState(worker[w], worker[w].state_collection)]
    /\ UNCHANGED <<engine_vars, generator_vars, rng, op, pc, seq_vars, state_collection, threads,
                   thread_states, thread_index, state_result_collection, output,
                   rng_at_call>>

\* the thread function returns: the thread ends
WorkerExit(w) ==
    /\ worker[w].pc = "exit"
    /\ worker' = [worker EXCEPT ![w].pc = "done"]
    /\ UNCHANGED <<engine_vars, generator_vars, rng, op, pc, seq_vars, state_collection, threads,
                   thread_states, thread_index, channel, state_result_collection,
                   output, rng_at_call>>

WorkerStep(w) == WorkerStart(w) \/ WorkerSweep(w) \/ WorkerSend(w) \/ WorkerExit(w)

MainStep == CallConcurrent \/ Spawn \/ ScopeEnd \/ Recv \/ Return

NextSeq == CallUpdateState \/ CallRelaxState \/ RelaxSweep

SeqSpec == InitSeq /\ [][NextSeq]_vars

\* the networks of the energy runs: every symmetric matrix of dimension 3 over
\* Weights with a zero diagonal, for the two discrete domains
EnergyNetworks ==
    {[matrix |-> <<<<0, a, b>>, <<a, 0, c>>, <<b, c, 0>>>>, domain |-> d] :
        a \in Weights, b \in Weights, c \in Weights, d \in {"Binary", "Bipolar"}}

InitEnergy == InitWith(EnergyNetworks)

EnergySpec == InitEnergy /\ [][NextSeq]_vars

Next ==
    \/ CallUpdateState
    \/ CallRelaxState
    \/ RelaxSweep
    \/ CallConcurrent
    \/ Spawn
    \/ ScopeEnd
    \/ Recv
    \/ Return
    \/ \E w \in Workers : WorkerStart(w)
    \/ \E w \in Workers : WorkerSweep(w)
    \/ \E w \in Workers : WorkerSend(w)
    \/ \E w \in Workers : WorkerExit(w)

Spec == Init /\ [][Next]_vars

\* the three operations called on vectors that need not be states of the domain
InitAnyInput == InitWith(AnyInputNetworks)

NextAnyInput ==
    \/ CallUpdateStateOf(AnyStates(dimension))
    \/ CallRelaxStateOf(AnyStates(dimension))
    \/ RelaxSweep
    \/ CallConcurrentOf(AnyBatches(dimension))
    \/ Spawn
    \/ ScopeEnd
    \/ Recv
    \/ Return
    \/ \E w \in Workers : WorkerStart(w)
    \/ \E w \in Workers : WorkerSweep(w)
    \/ \E w \in Workers : WorkerSend(w)
    \/ \E w \in Workers : WorkerExit(w)

AnyInputSpec == InitAnyInput /\ [][NextAnyInput]_vars

NextBatch ==
    \/ CallConcurrent
    \/ Spawn
    \/ ScopeEnd
    \/ Recv
    \/ Return
    \/ \E w \in Workers : WorkerStart(w)
    \/ \E w \in Workers : WorkerSweep(w)
    \/ \E w \in Workers : WorkerSend(w)
    \/ \E w \in Workers : WorkerExit(w)

\* one network, one engine rng state, the default stability tolerance: the batch
\* calls on it
InitFair ==
    /\ Init
    /\ matrix = <<<<0, 1>>, <<-1, 0>>>>
    /\ maximum_relaxation_unstable_units = 0
    /\ rng = 0

\* the caller's thread and every worker thread are scheduled fairly
FairSpec ==
    /\ InitFair
    /\ [][NextBatch]_vars
    /\ WF_vars(MainStep)
    /\ \A w \in Workers : WF_vars(WorkerStep(w))

\* ------------------------------------------------------------- build
\* the setters of the builder; each returns the builder with one field replaced
set_rand_matrix_init ==
    /\ pc = "builder"
    /\ \E rand_matrix_init \in BOOLEAN :
        builder' = [builder EXCEPT !.rand_matrix_init = rand_matrix_init]

set_network_dimension ==
    /\ pc = "builder"
    /\ \E n \in 0..2 : builder' = [builder EXCEPT !.dimension = n]

set_force_symmetrix ==
    /\ pc = "builder"
    /\ \E flag \in BOOLEAN : builder' = [builder EXCEPT !.force_symmetric = flag]

set_zero_diagonal_flag ==
    /\ pc = "builder"
    /\ \E flag \in BOOLEAN : builder' = [builder EXCEPT !.force_zero_diagonal = flag]

set_network_domain ==
    /\ pc = "builder"
    /\ \E d \in Domains : builder' = [builder EXCEPT !.domain = d]

set_maximum_relaxation_unstable_units ==
    /\ pc = "builder"
    /\ \E n \in {0, MaxUnstable} :
        builder' = [builder EXCEPT !.maximum_relaxation_unstable_units = n]

set_maximum_relaxation_iterations ==
    /\ pc = "builder"
    /\ \E n \in {0, MaxIter} :
        builder' = [builder EXCEPT !.maximum_relaxation_iterations = n]

Setter ==
    /\ \/ set_rand_matrix_init
       \/ set_network_dimension
       \/ set_force_symmetrix
       \/ set_zero_diagonal_flag
       \/ set_network_domain
       \/ set_maximum_relaxation_unstable_units
       \/ set_maximum_relaxation_iterations
    /\ UNCHANGED <<matrix, domain, maximum_relaxation_iterations,
                   maximum_relaxation_unstable_units, force_symmetric,
                   force_zero_diagonal, prior_matrix, cleaned, rng, op, pc, seq_vars,
                   batch_vars, output, rng_at_call, generator_vars>>

BuildPanicsDomainOnly(b) == b.domain = "Unspecified"

\* the two validations of build()
BuildPanics(b) == b.dimension <= 0 \/ b.domain = "Unspecified"

\* the matrices build() can draw: n * n samples, each any weight
RandomMatrices(n) == [1..n -> [1..n -> Weights]]

\* the states rand::thread_rng() can hand to the network
ThreadRngStates == {0, RngMod - 1}

\* build(): panics on an invalid builder, else returns the network with a random or
\* a zero matrix and the builder's flags and limits
Build ==
    /\ pc = "builder"
    /\ IF BuildPanics(builder)
       THEN /\ pc' = "build_failed"
            /\ UNCHANGED <<matrix, domain, maximum_relaxation_iterations,
                           maximum_relaxation_unstable_units, force_symmetric,
                           force_zero_diagonal, rng, rng_at_call>>
       ELSE /\ pc' = "idle"
            /\ rng' \in ThreadRngStates
            /\ rng_at_call' = rng'
            /\ matrix' \in IF builder.rand_matrix_init
                            THEN RandomMatrices(builder.dimension)
                            ELSE {ZeroMatrix(builder.dimension)}
            /\ domain' = builder.domain
            /\ force_symmetric' = builder.force_symmetric
            /\ force_zero_diagonal' = builder.force_zero_diagonal
            /\ maximum_relaxation_iterations' = builder.maximum_relaxation_iterations
            /\ maximum_relaxation_unstable_units' =
                    builder.maximum_relaxation_unstable_units
    /\ UNCHANGED <<builder, prior_matrix, cleaned, op, seq_vars, batch_vars, output,
                   generator_vars>>

\* ------------------------------------------------------------- clean_matrix
\* matrix.fill_diagonal(value)
RECURSIVE FillDiagonalFrom(_, _, _)
FillDiagonalFrom(m, value, i) ==
    IF i > Len(m) THEN <<>>
    ELSE <<[m[i] EXCEPT ![i] = value]>> \o FillDiagonalFrom(m, value, i + 1)

fill_diagonal(m, value) == FillDiagonalFrom(m, value, 1)

RECURSIVE UpperFilledRow(_, _, _)
UpperFilledRow(m, i, j) ==
    IF j > Len(m[i]) THEN <<>>
    ELSE <<IF j > i THEN m[j][i] ELSE m[i][j]>> \o UpperFilledRow(m, i, j + 1)

\* row i of the matrix with its lower triangle filled: the entries left of the
\* diagonal are taken from column i of the rows above
RECURSIVE LowerFilledRow(_, _, _)
LowerFilledRow(m, i, j) ==
    IF j > Len(m[i]) THEN <<>>
    ELSE <<IF j < i THEN m[j][i] ELSE m[i][j]>> \o LowerFilledRow(m, i, j + 1)

RECURSIVE FillLowerFrom(_, _)
FillLowerFrom(m, i) ==
    IF i > Len(m) THEN <<>>
    ELSE <<LowerFilledRow(m, i, 1)>> \o FillLowerFrom(m, i + 1)

\* matrix.fill_lower_triangle_with_upper_triangle()
fill_lower_triangle_with_upper_triangle(m) == FillLowerFrom(m, 1)

clean_matrix(m, zero_diagonal, symmetric) ==
    LET diagonal_done == IF zero_diagonal THEN fill_diagonal(m, 0) ELSE m
    IN  IF symmetric THEN fill_lower_triangle_with_upper_triangle(diagonal_done)
        ELSE diagonal_done

\* the caller cleans the matrix of the network
CleanMatrix ==
    /\ pc = "idle"
    /\ prior_matrix' = matrix
    /\ matrix' = clean_matrix(matrix, force_zero_diagonal, force_symmetric)
    /\ cleaned' = TRUE
    /\ UNCHANGED <<domain, maximum_relaxation_iterations,
                   maximum_relaxation_unstable_units, force_symmetric,
                   force_zero_diagonal, builder, rng, op, pc, seq_vars, batch_vars,
                   output, rng_at_call, generator_vars>>

\* a fresh builder, no network yet
InitBuild ==
    /\ builder = new_hopfield_network_builder
    /\ pc = "builder"
    /\ matrix = <<>>
    /\ domain = "Unspecified"
    /\ maximum_relaxation_iterations = 0
    /\ maximum_relaxation_unstable_units = 0
    /\ force_symmetric = FALSE
    /\ force_zero_diagonal = FALSE
    /\ prior_matrix = <<>>
    /\ cleaned = FALSE
    /\ rng = 0
    /\ op = "none"
    /\ input = <<>>
    /\ state = <<>>
    /\ sweeps = 0
    /\ state_collection = <<>>
    /\ threads = 0
    /\ thread_states = <<>>
    /\ thread_index = 0
    /\ worker = NoWorkers(MaxThreads)
    /\ channel = <<>>
    /\ state_result_collection = <<>>
    /\ output = <<>>
    /\ rng_at_call = 0
    /\ InitGenerator

\* a builder is configured and built, and the network is used from one thread
NextBuild ==
    \/ Setter
    \/ Build
    \/ CleanMatrix
    \/ CallUpdateState
    \/ CallRelaxState
    \/ RelaxSweep

BuildSpec == InitBuild /\ [][NextBuild]_vars

\* ------------------------------------------------------------- state generator
\* the setters of the state generator builder
set_random_lower_bound ==
    \E bound \in -1..1 :
        generator_builder' = [generator_builder EXCEPT !.random_lower_bound = bound]

set_random_upper_bound ==
    \E bound \in {-1, 1, 2} :
        generator_builder' = [generator_builder EXCEPT !.random_upper_bound = bound]

set_generator_seed ==
    \E seed \in 0..2 :
        generator_builder' = [generator_builder EXCEPT !.generator_seed = seed]

set_dimension ==
    \E n \in 0..2 : generator_builder' = [generator_builder EXCEPT !.dimension = n]

set_domain ==
    \E d \in Domains : generator_builder' = [generator_builder EXCEPT !.domain = d]

\* one setter is applied to a builder that has built nothing yet
GeneratorSetter ==
    /\ gen_pc = "builder"
    /\ \/ set_random_lower_bound
       \/ set_random_upper_bound
       \/ set_generator_seed
       \/ set_dimension
       \/ set_domain
    /\ UNCHANGED <<engine_vars, rng, op, pc, seq_vars, batch_vars, output, rng_at_call,
                   generator, gen_pc, generated>>

\* check_valid(): the three validations; no function calls it
check_valid_panics(b) ==
    \/ b.random_lower_bound >= b.random_upper_bound
    \/ b.dimension <= 0
    \/ b.domain = "Unspecified"

\* what makes build() panic: Uniform::from on an empty range, and the lookup of the
\* activation function of a domain that has none
GeneratorBuildPanics(b) ==
    \/ b.random_lower_bound >= b.random_upper_bound
    \/ b.domain = "Unspecified"

\* build(): the seed of the builder, or one drawn from thread_rng() when it is 0
GeneratorBuild ==
    /\ gen_pc = "builder"
    /\ IF GeneratorBuildPanics(generator_builder)
       THEN /\ gen_pc' = "build_failed"
            /\ UNCHANGED generator
       ELSE /\ gen_pc' = "built"
            /\ \E drawn \in 0..(RngMod - 1) :
                LET gen_seed == IF generator_builder.generator_seed # 0
                                THEN generator_builder.generator_seed ELSE drawn
                IN  generator' =
                        [rng |-> seed_from_u64(gen_seed),
                         rng_seed |-> gen_seed,
                         random_lower_bound |-> generator_builder.random_lower_bound,
                         random_upper_bound |-> generator_builder.random_upper_bound,
                         dimension |-> generator_builder.dimension,
                         domain |-> generator_builder.domain]
    /\ UNCHANGED <<engine_vars, rng, op, pc, seq_vars, batch_vars, output, rng_at_call,
                   generator_builder, generated>>

\* n samples of the uniform distribution on [lower, upper), drawn one after the
\* other from generator state s
RECURSIVE SampleVector(_, _, _, _)
SampleVector(s, lower, upper, n) ==
    IF n = 0 THEN [vector |-> <<>>, rng |-> s]
    ELSE CHOOSE sampled \in
            {[vector |-> Append(rest.vector, lower + gen_index(rest.rng, upper - lower)),
              rng |-> RngStep(rest.rng)] :
                rest \in {SampleVector(s, lower, upper, n - 1)}} : TRUE

\* next_state(): dimension samples, mapped by the activation function
next_state(g) ==
    CHOOSE result \in
        {[state |-> activation_fn(g.domain, sampled.vector), rng |-> sampled.rng] :
            sampled \in {SampleVector(g.rng, g.random_lower_bound,
                                       g.random_upper_bound, g.dimension)}} : TRUE

\* the owner asks the generator for a state
CallNextState ==
    /\ gen_pc \in {"built", "generated"}
    /\ generated' = next_state(generator).state
    /\ generator' = [generator EXCEPT !.rng = next_state(generator).rng]
    /\ gen_pc' = "generated"
    /\ UNCHANGED <<engine_vars, rng, op, pc, seq_vars, batch_vars, output, rng_at_call,
                   generator_builder>>

\* a state generator builder is configured and built, and states are generated
NextGenerator ==
    \/ GeneratorSetter
    \/ GeneratorBuild
    \/ CallNextState

GeneratorSpec == InitBuild /\ [][NextGenerator]_vars

\* ------------------------------------------------------------- reference
BatchCall == op = "concurrent_relax_state_collection"

RelaxCall == op = "relax_state"

IsZeroMatrix == matrix = ZeroMatrix(dimension)

\* the visit orders: the permutations of 0..n-1
Orders(n) == {p \in [1..n -> 0..(n - 1)] : \A i, j \in 1..n : p[i] = p[j] => i = j}

\* the loop of relax_state run on an index list that is handed from one sweep to
\* the next instead of being rebuilt: the state, rng and index list it ends with
RECURSIVE RelaxCarried(_, _, _, _)
RelaxCarried(st, s, indices, done) ==
    IF done >= maximum_relaxation_iterations
    THEN [state |-> st, rng |-> s, unit_indices |-> indices, sweeps |-> done]
    ELSE LET sw == ShuffledSweep(matrix, domain, s, st, indices)
         IN  IF StopsEarly(UnstableUnits(matrix, sw.state),
                           maximum_relaxation_unstable_units)
             THEN [state |-> sw.state, rng |-> sw.rng,
                   unit_indices |-> sw.unit_indices, sweeps |-> done + 1]
             ELSE RelaxCarried(sw.state, sw.rng, sw.unit_indices, done + 1)

RECURSIVE RngStepN(_, _)
RngStepN(s, k) == IF k = 0 THEN s ELSE RngStepN(RngStep(s), k - 1)

\* every state of the batch has the network's dimension
WellFormedBatch == \A k \in 1..Len(state_collection) : MulDefined(matrix, state_collection[k])

\* no worker panics: the batch is well formed, or no sweep is run at all
NoPanicBatch == WellFormedBatch \/ maximum_relaxation_iterations <= 0

AnyPanicked == \E w \in Workers : worker[w].pc = "panicked"

\* what worker w holds after the j-th state of its share, when its seed is the
\* (w+1)-th draw of the engine's rng and its share the indices w, w + threads, ...
RECURSIVE RefWorkerAfter(_, _)
RefWorkerAfter(w, j) ==
    IF j = 0
    THEN [state |-> <<>>,
          rng |-> seed_from_u64(next_u64(RngStepN(rng_at_call, w))),
          unit_indices |-> get_unit_indices(dimension), sweeps |-> 0]
    ELSE LET before == RefWorkerAfter(w, j - 1)
         IN  RelaxCarried(state_collection[w + (j - 1) * threads + 1],
                          before.rng, before.unit_indices, 0)

\* the relaxed state of the input at position k (1-based)
RefRelaxed(k) == RefWorkerAfter((k - 1) % threads, ((k - 1) \div threads) + 1).state

RECURSIVE RefOutputUpTo(_)
RefOutputUpTo(k) == IF k = 0 THEN <<>> ELSE Append(RefOutputUpTo(k - 1), RefRelaxed(k))

RefOutput == RefOutputUpTo(Len(state_collection))

\* the states a relaxation of st can end in, over every rng state and index list
RelaxationsOf(st) ==
    {RelaxCarried(st, s, indices, 0).state :
        s \in 0..(RngMod - 1), indices \in Orders(dimension)}

\* a network has been built
Built == pc \notin {"builder", "build_failed"}

IsSymmetric(m) == \A i, j \in 1..Len(m) : m[i][j] = m[j][i]

HasZeroDiagonal(m) == \A i \in 1..Len(m) : m[i][i] = 0

\* the vectors at hand in a state: the argument, the working state, the returned
\* state, and the products of the matrix with them
VectorsAtHand ==
    {input, state, output}
    \cup {MatVec(matrix, vector) :
            vector \in {v \in {input, state, output} : MulDefined(matrix, v)}}

\* sum over j of W[i][j] V[j], and sum over i, j of W[i][j] V[i] V[j], term by term
RECURSIVE SumFieldTerms(_, _, _, _)
SumFieldTerms(m, vector, i, j) ==
    IF j = 0 THEN 0
    ELSE SumFieldTerms(m, vector, i, j - 1) + m[i][j] * vector[j]

RECURSIVE SumEnergyTerms(_, _, _)
SumEnergyTerms(m, vector, k) ==
    IF k = 0 THEN 0
    ELSE SumEnergyTerms(m, vector, k - 1)
         + m[((k - 1) \div Len(m)) + 1][((k - 1) % Len(m)) + 1]
           * vector[((k - 1) \div Len(m)) + 1] * vector[((k - 1) % Len(m)) + 1]

\* the working state after steps 0..t-1 of the fold over the order p: step t sets
\* component p[t] to the activation of the product of the matrix with the working
\* state that holds the updates of the steps before it
RECURSIVE FoldSteps(_, _, _)
FoldSteps(st, p, t) ==
    IF t = 0 THEN st
    ELSE CHOOSE after \in
            {[s EXCEPT ![p[t] + 1] = activation_fn(domain, MatVec(matrix, s))[p[t] + 1]] :
                s \in {FoldSteps(st, p, t - 1)}} : TRUE

\* the order update_state draws in generator state s
FreshOrder(s) == Shuffle(get_unit_indices(dimension), s).list

\* the list holds every index of 0..n-1 exactly once
IsPermutation(list, n) ==
    /\ Len(list) = n
    /\ \A unit_index \in 0..(n - 1) : \E i \in 1..n : list[i] = unit_index
    /\ \A i, j \in 1..n : list[i] = list[j] => i = j

\* the two vectors have the same length and differ at most at unit_index
SameButAt(before, after, unit_index) ==
    /\ Len(after) = Len(before)
    /\ \A i \in 1..Len(before) : i # unit_index + 1 => after[i] = before[i]

\* in the fold of st over the order p, every step leaves all components but the
\* one it visits as they are
StepsChangeOnlyVisited(st, p) ==
    \A t \in 1..Len(p) :
        SameButAt(FoldSteps(st, p, t - 1), FoldSteps(st, p, t), p[t])

\* worker w has run: it is past the first instruction of the thread function
HasRun(w) == worker[w].pc \notin {"unspawned", "start"}

\* the seeds handed out so far are the first draws of the engine's rng stream since
\* the call, worker i holding the i-th, and nothing else has drawn from the stream
SeedsInIndexOrder ==
    BatchCall =>
        /\ \A w \in Workers : w >= thread_index <=> worker[w].pc = "unspawned"
        /\ \A w \in Spawned : worker[w].rng_seed = next_u64(RngStepN(rng_at_call, w))
        /\ rng = RngStepN(rng_at_call, thread_index)
        /\ thread_index <= threads
        /\ pc \in {"recv", "returned"} => thread_index = threads

\* the engine's rng s after k permutations of 0..n-1 have been drawn from it: a
\* shuffle of n indices makes n - 1 draws
AfterPermutations(s, k) == RngStepN(s, k * (dimension - 1))

\* the permutations the current operation has drawn: one per sweep performed, and
\* the one of the sweep that panicked
PermutationsDrawn == sweeps + (IF pc = "failed" THEN 1 ELSE 0)

\* everything sent on the channel so far, in the order of the sends: what the
\* collector has received, then what is still queued
Sent == state_result_collection \o channel

\* the partition is round-robin: the state at index k, tagged k, is once in the share
\* of worker k mod threads and in no other, the shares hold nothing else, and each
\* share is in increasing order of its tags
RoundRobin ==
    /\ Len(thread_states) = threads
    /\ \A k \in 0..(Len(state_collection) - 1) : \A j \in 1..threads :
        Cardinality({i \in 1..Len(thread_states[j]) :
                        thread_states[j][i] = <<k, state_collection[k + 1]>>})
            = (IF j = (k % threads) + 1 THEN 1 ELSE 0)
    /\ \A j \in 1..threads : \A i \in 1..Len(thread_states[j]) :
        /\ thread_states[j][i][1] \in 0..(Len(state_collection) - 1)
        /\ thread_states[j][i][1] % threads = j - 1
        /\ thread_states[j][i][2] = state_collection[thread_states[j][i][1] + 1]
        /\ \A h \in 1..(i - 1) : thread_states[j][h][1] < thread_states[j][i][1]

\* the tags of the collection are the indices 0..m-1, each once
TagsArePermutation(collection, m) ==
    /\ Len(collection) = m
    /\ \A k \in 0..(m - 1) : \E i \in 1..m : collection[i][1] = k

\* the energy of the working state does not rise at any step of the loop over the
\* visit order, each step updating the unit it visits in the state left by the
\* steps before it; energy is the energy of st
RECURSIVE EnergyFallsAlong(_, _, _)
EnergyFallsAlong(st, energy, order) ==
    IF order = <<>> THEN TRUE
    ELSE \A updated \in {UnitUpdate(matrix, domain, st, Head(order))} :
         \A updated_energy \in {state_energy_function(matrix, updated)} :
            /\ updated_energy <= energy
            /\ EnergyFallsAlong(updated, updated_energy, Tail(order))

\* ------------------------------------------------------------- claims
\* C1: a batch call with w >= 1 workers (also w > m) returns exactly m states, and
\* the state at output position k is a relaxation of the input at position k,
\* whatever the interleaving and completion order of the workers.
C1_OutputInInputOrder ==
    (BatchCall /\ pc = "returned" /\ threads >= 1) =>
        /\ Len(output) = Len(state_collection)
        /\ \A k \in 1..Len(state_collection) :
              output[k] \in RelaxationsOf(state_collection[k])

\* two workers, two different results, received in the reverse of the input order
C1_Witness ==
    /\ BatchCall /\ pc = "returned" /\ threads = 2
    /\ Len(state_collection) = 2
    /\ output[1] # output[2]
    /\ state_result_collection[1][1] = 1

\* more workers than states: a worker with an empty share
C1_WitnessIdleWorker ==
    /\ BatchCall /\ pc = "returned"
    /\ threads > Len(state_collection)
    /\ Len(output) = 1

C3_StopsAtMostMaxUnstable ==
    (RelaxCall /\ pc = "relax" /\ sweeps >= 1) =>
        UnstableUnits(matrix, state) > maximum_relaxation_unstable_units

\* C4: for a fixed engine rng state, worker count and batch, the batch call
\* returns the same states in every interleaving and completion order: the result
\* a worker has just sent, and the output, is a function of the call's inputs alone.
C4_OutputIndependentOfSchedule ==
    (BatchCall /\ threads >= 1) =>
        /\ channel # <<>> =>
              channel[Len(channel)][2] = RefRelaxed(channel[Len(channel)][1] + 1)
        /\ pc = "returned" => output = RefOutput

\* three results of two workers, the second worker's result received first
C4_Witness ==
    /\ BatchCall /\ pc = "returned" /\ threads = 2
    /\ Len(state_collection) >= 2
    /\ maximum_relaxation_iterations = 2
    /\ state_result_collection[1][1] = 1
    /\ output[2] # state_collection[2]

\* relax_state called on each state in turn, on an engine whose rng is s
RECURSIVE RelaxEach(_, _)
RelaxEach(states, s) ==
    IF states = <<>> THEN <<>>
    ELSE LET r == relax_state(matrix, domain, maximum_relaxation_iterations,
                              maximum_relaxation_unstable_units, s, Head(states))
         IN  <<r.state>> \o RelaxEach(Tail(states), r.rng)

\* the same, the index list handed from sweep to sweep and from state to state
RECURSIVE RelaxEachCarried(_, _, _)
RelaxEachCarried(states, s, indices) ==
    IF states = <<>> THEN <<>>
    ELSE LET r == RelaxCarried(Head(states), s, indices, 0)
         IN  <<r.state>> \o RelaxEachCarried(Tail(states), r.rng, r.unit_indices)

\* the rng of the first worker
FirstWorkerRng == seed_from_u64(next_u64(rng_at_call))

OneWorkerCall ==
    /\ BatchCall /\ pc = "returned" /\ threads >= 1
    /\ (threads = 1 \/ Len(state_collection) = 1)

\* C5 as stated: with one worker (or one state) the output is what relax_state
\* returns for each input in order, on an engine seeded with the worker's seed.
C5_EqualsRelaxState ==
    OneWorkerCall => output = RelaxEach(state_collection, FirstWorkerRng)

\* C5 as amended: with one worker (or one state) the output is what the loop of
\* relax_state returns for each input in order when every shuffle permutes the
\* index list left by the sweep before it; it is what relax_state itself returns
\* when the worker runs at most one sweep.
C5_EqualsRelaxStateCarried ==
    OneWorkerCall =>
        /\ output = RelaxEachCarried(state_collection, FirstWorkerRng,
                                     get_unit_indices(dimension))
        /\ (Len(state_collection) = 1 /\ maximum_relaxation_iterations <= 1) =>
              output = RelaxEach(state_collection, FirstWorkerRng)

\* one worker has relaxed two states in two sweeps each, and the second sweep of
\* a state started from the index list the first one left: the output is not
\* what relax_state returns
C5_Witness ==
    /\ OneWorkerCall /\ threads = 1
    /\ Len(state_collection) = 2
    /\ worker[0].iteration = 2
    /\ output # RelaxEach(state_collection, FirstWorkerRng)

\* C6: once the batch call is past the scope (it receives, has returned, or has
\* failed), every worker it spawned has terminated and none can send any more.
C6_NoWorkerOutlivesCall ==
    (BatchCall /\ pc \in {"recv", "returned", "failed"}) =>
        \A w \in Workers : worker[w].pc \in {"unspawned", "done", "panicked"}

\* the call has returned two results of two workers, both terminated
C6_Witness ==
    /\ BatchCall /\ pc = "returned" /\ threads = 2
    /\ Len(output) = 2
    /\ \A w \in 0..1 : worker[w].pc = "done"

\* C7: once a worker has panicked the call is never in its receive loop and never
\* returns a result, and it ends failed: it does not wait for the worker for ever.
C7_WorkerPanicFailsCall ==
    /\ [](AnyPanicked => pc \notin {"recv", "returned"})
    /\ AnyPanicked ~> (pc = "failed")

\* the call has failed although the other worker has sent its result
C7_Witness ==
    /\ BatchCall /\ pc = "failed"
    /\ AnyPanicked
    /\ \E w \in Workers : worker[w].pc = "done"
    /\ channel # <<>>

\* C8: under fair scheduling a batch call with w >= 1 workers whose workers do not
\* panic completes: no send waits, every worker ends, the collector receives all
\* m results and the call returns them.
C8_CallCompletes ==
    /\ [](\A w \in Workers : worker[w].pc = "send" => ENABLED WorkerSend(w))
    /\ (BatchCall /\ threads >= 1 /\ NoPanicBatch) ~>
          /\ pc = "returned"
          /\ Len(output) = Len(state_collection)
          /\ channel = <<>>
          /\ \A w \in Workers : worker[w].pc \in {"unspawned", "done"}

\* the call has returned a full batch that two workers shared
C8_Witness ==
    /\ BatchCall /\ pc = "returned" /\ threads = 2
    /\ Len(output) = MaxBatch
    /\ channel = <<>>
    /\ maximum_relaxation_iterations >= 1

\* C9: a Bipolar network of dimension 4 with the zero matrix and
\* max_unstable_units = 0: relax_state on a bipolar state returns after at most one
\* sweep, with a state of energy 0.
C9_ZeroMatrixOneSweep ==
    (/\ RelaxCall /\ pc = "returned"
     /\ dimension = 4 /\ IsZeroMatrix /\ domain = "Bipolar"
     /\ maximum_relaxation_unstable_units = 0
     /\ input \in DomainStates(4, "Bipolar")) =>
        /\ sweeps <= 1
        /\ state_energy_function(matrix, output) = 0

\* C10: with the zero matrix and the Binary or Bipolar domain, the state that one
\* sweep of a domain-valid state yields is left unchanged by a further sweep in
\* every visit order, and by the sweep the engine's rng is about to make.
C10_ZeroMatrixSweepIdempotent ==
    (/\ op \in {"update_state", "relax_state"}
     /\ IsZeroMatrix /\ domain \in {"Binary", "Bipolar"}
     /\ input \in DomainStates(dimension, domain)
     /\ sweeps >= 1) =>
        /\ \A order \in Orders(dimension) : Sweep(matrix, domain, state, order) = state
        /\ update_state(matrix, domain, rng, state).state = state
        /\ pc = "returned" => output = state

\* relax_state has run two sweeps on the zero matrix and the state is not the input
C10_Witness ==
    /\ RelaxCall /\ pc = "returned"
    /\ IsZeroMatrix /\ domain \in {"Binary", "Bipolar"}
    /\ input \in DomainStates(dimension, domain)
    /\ sweeps = 2
    /\ output # input

\* C11: the Bipolar network with W = [[0, 1], [1, 0]]: the state [1, 1] is a fixed
\* point of the single-unit update of either unit, hence of the sweep in both visit
\* orders, and update_state([1, 1]) returns [1, 1].
C11_BipolarFixedPoint ==
    (/\ matrix = <<<<0, 1>>, <<1, 0>>>> /\ domain = "Bipolar"
     /\ op = "update_state" /\ input = <<1, 1>>) =>
        /\ pc = "returned" /\ output = <<1, 1>>
        /\ \A unit_index \in 0..1 : UnitUpdate(matrix, domain, input, unit_index) = <<1, 1>>
        /\ \A order \in Orders(2) : Sweep(matrix, domain, input, order) = <<1, 1>>
        /\ \A s \in 0..(RngMod - 1) : update_state(matrix, domain, s, input).state = <<1, 1>>

\* update_state has returned from [1, 1] on that network
C11_Witness ==
    /\ matrix = <<<<0, 1>>, <<1, 0>>>> /\ domain = "Bipolar"
    /\ op = "update_state" /\ input = <<1, 1>>
    /\ pc = "returned" /\ output = <<1, 1>>

\* C12: build() fails whenever the builder's dimension is 0 or its domain is
\* Unspecified: no network exists then, and no update_state, relax_state or batch
\* call ever runs on a network of dimension 0 or of the Unspecified domain.
C12_BuildRejectsInvalid ==
    /\ (pc # "builder" /\ BuildPanics(builder)) =>
            /\ pc = "build_failed"
            /\ matrix = <<>> /\ op = "none" /\ ~cleaned
    /\ (op # "none" \/ pc \notin {"builder", "build_failed"}) =>
            /\ builder.dimension > 0 /\ builder.domain # "Unspecified"
            /\ dimension = builder.dimension /\ domain = builder.domain

\* build() has failed on a builder whose domain is set and whose dimension is not
C12_Witness ==
    /\ pc = "build_failed"
    /\ builder.dimension = 0 /\ builder.domain = "Bipolar"

\* C13: a network built with force_symmetric = true has a symmetric matrix and a
\* network built with force_zero_diagonal = true has a zero diagonal, in every state
\* after build, for zero and random initialisation, clean_matrix called or not.
C13_FlagsAlwaysEnforced ==
    Built =>
        /\ force_symmetric => IsSymmetric(matrix)
        /\ force_zero_diagonal => HasZeroDiagonal(matrix)

\* C14: after clean_matrix, whatever the matrix was before: with force_zero_diagonal
\* the diagonal is 0; with force_symmetric the matrix is symmetric, its lower
\* triangle being the prior upper triangle; with both flags both hold; with neither
\* the matrix is unchanged; and a second clean_matrix changes nothing.
C14_CleanMatrix ==
    cleaned =>
        /\ force_zero_diagonal => HasZeroDiagonal(matrix)
        /\ force_symmetric =>
                /\ IsSymmetric(matrix)
                /\ \A i, j \in 1..dimension : i > j => matrix[i][j] = prior_matrix[j][i]
        /\ \A i, j \in 1..dimension : i < j => matrix[i][j] = prior_matrix[i][j]
        /\ (~force_zero_diagonal /\ ~force_symmetric) => matrix = prior_matrix
        /\ clean_matrix(matrix, force_zero_diagonal, force_symmetric) = matrix
        /\ \A zero_diagonal, symmetric \in BOOLEAN :
                LET once == clean_matrix(prior_matrix, zero_diagonal, symmetric)
                IN  /\ zero_diagonal => HasZeroDiagonal(once)
                    /\ symmetric => IsSymmetric(once)
                    /\ clean_matrix(once, zero_diagonal, symmetric) = once

\* clean_matrix with both flags set has changed a matrix that was neither symmetric
\* nor zero on its diagonal
C14_Witness ==
    /\ cleaned /\ force_zero_diagonal /\ force_symmetric
    /\ dimension = 2
    /\ ~IsSymmetric(prior_matrix) /\ ~HasZeroDiagonal(prior_matrix)
    /\ prior_matrix[1][2] # 0
    /\ matrix[2][1] = prior_matrix[1][2]

\* C15: for the Binary, Bipolar and Continuous domains the activation is idempotent,
\* keeps the length, and maps each component by itself (Binary: x <= 0 to 0, else 1;
\* Bipolar: x <= 0 to -1, else 1; Continuous: x).
C15_ActivationIdempotent ==
    \A d \in {"Binary", "Bipolar", "Continuous"} : \A x \in VectorsAtHand :
        \A y \in {activation_fn(d, x)} :
            /\ Len(y) = Len(x)
            /\ activation_fn(d, y) = y
            /\ \A i \in 1..Len(x) :
                /\ y[i] = activation_fn(d, <<x[i]>>)[1]
                /\ y[i] = CASE d = "Binary" -> IF x[i] <= 0 THEN 0 ELSE 1
                             [] d = "Bipolar" -> IF x[i] <= 0 THEN -1 ELSE 1
                             [] d = "Continuous" -> x[i]

\* update_state has returned and the product of the matrix with its argument had a
\* component below 0 and a component above 1
C15_Witness ==
    /\ op = "update_state" /\ pc = "returned"
    /\ domain \in {"Binary", "Bipolar"}
    /\ \E i, j \in 1..dimension :
        /\ MatVec(matrix, input)[i] < 0
        /\ MatVec(matrix, input)[j] > 1

\* C16: for the matrix W, every state V of its dimension at hand and every index i,
\* all_unit_energies(W, V)[i] = unit_energy(W, V, i) = -(sum_j W[i][j] V[j]) V[i],
\* and state_energy(W, V) = -sum_i sum_j W[i][j] V[i] V[j], which is the sum of the
\* unit energies, with no factor 1/2.
C16_EnergiesAgree ==
    \A V \in {v \in {input, state, output} : MulDefined(matrix, v)} :
        /\ Len(all_unit_energies(matrix, V)) = dimension
        /\ \A i \in 0..(dimension - 1) :
            /\ all_unit_energies(matrix, V)[i + 1] = unit_energy_function(matrix, V, i)
            /\ unit_energy_function(matrix, V, i)
                    = -(SumFieldTerms(matrix, V, i + 1, dimension) * V[i + 1])
        /\ state_energy_function(matrix, V)
                = -SumEnergyTerms(matrix, V, dimension * dimension)
        /\ state_energy_function(matrix, V) = SumSeq(all_unit_energies(matrix, V))

\* a returned state whose energy is odd and whose two unit energies differ
C16_Witness ==
    /\ pc = "returned" /\ dimension = 2 /\ MulDefined(matrix, output)
    /\ state_energy_function(matrix, output) % 2 = 1
    /\ unit_energy_function(matrix, output, 0) # unit_energy_function(matrix, output, 1)

\* C18: a sweep is asynchronous: the state it yields is the fold over the order p
\* chosen for it, step t setting component p[t] from the working state that holds
\* the updates of steps 0..t-1; in update_state, in each sweep of relax_state and in
\* each sweep of a worker.
C18_AsynchronousSweep ==
    [][/\ (pc = "idle" /\ op' = "update_state" /\ pc' = "returned") =>
            output' = FoldSteps(input', FreshOrder(rng), dimension)
       /\ (pc = "relax" /\ sweeps' = sweeps + 1) =>
            state' = FoldSteps(state, FreshOrder(rng), dimension)
       /\ \A w \in Workers :
            (worker[w].pc = "sweep" /\ worker'[w].iteration = worker[w].iteration + 1) =>
                worker'[w].state
                    = FoldSteps(worker[w].state, worker'[w].unit_indices, dimension)
      ]_vars

\* update_state has returned a state that is not the synchronous update of its
\* argument
C18_Witness ==
    /\ op = "update_state" /\ pc = "returned"
    /\ output # activation_fn(domain, MatVec(matrix, input))

\* C19: the visit order of every sweep is a permutation of 0..n-1 (every unit is
\* visited exactly once) and each step of the sweep leaves every component but the
\* visited one as it is: in update_state, in each sweep of relax_state and in each
\* sweep of a worker; and the index list a worker holds, which it reshuffles in place
\* over its sweeps and states, is a permutation of 0..n-1 after every step.
C19_OrderIsPermutation ==
    [][/\ ((pc = "idle" /\ op' = "update_state" /\ pc' = "returned")
            \/ (pc = "relax" /\ sweeps' = sweeps + 1)) =>
            /\ IsPermutation(FreshOrder(rng), dimension)
            /\ StepsChangeOnlyVisited(IF pc = "idle" THEN input' ELSE state,
                                      FreshOrder(rng))
       /\ \A w \in Workers :
            /\ worker'[w].pc # "unspawned" =>
                    IsPermutation(worker'[w].unit_indices, dimension)
            /\ (worker[w].pc = "sweep"
                    /\ worker'[w].iteration = worker[w].iteration + 1) =>
                    StepsChangeOnlyVisited(worker[w].state, worker'[w].unit_indices)
      ]_vars

\* a worker is at its second state with an index list that two or more shuffles
\* have left in another order than 0..n-1
C19_Witness ==
    \E w \in Workers :
        /\ worker[w].pc = "send"
        /\ worker[w].iteration >= 1
        /\ worker[w].state_index >= threads
        /\ worker[w].unit_indices # get_unit_indices(dimension)
        /\ worker[w].state # state_collection[worker[w].state_index + 1]

\* C20 (as stated): every worker's seed is one u64 drawn from the engine's rng
\* stream, worker i getting the i-th draw, and all the draws of the call are done
\* before any worker has run.
C20_AllSeedsBeforeAnyWorkerRuns ==
    /\ SeedsInIndexOrder
    /\ BatchCall => ((\E w \in Workers : HasRun(w)) => thread_index >= threads)

\* C20 (amended): every worker's seed is one u64 drawn from the engine's rng
\* stream by the caller, worker i getting the i-th draw of the call, and the seed of
\* a worker is drawn before that worker is spawned; the workers spawned before it
\* may have run by then, and they never draw from the engine's stream.
C20_SeedDrawnBeforeSpawn ==
    /\ SeedsInIndexOrder
    /\ \A w \in Workers : HasRun(w) => w < thread_index

\* the second worker has just been spawned with another seed than the first, which
\* has already finished
C20_Witness ==
    /\ BatchCall /\ threads = 2 /\ thread_index = 2 /\ pc = "spawn"
    /\ worker[0].pc = "done" /\ worker[1].pc = "start"
    /\ worker[0].rng_seed # worker[1].rng_seed
    /\ channel # <<>>

\* C17: StateGeneratorBuilder::build fails, and yields no generator, whenever
\* random_lower_bound >= random_upper_bound, the dimension is 0 or the domain is
\* Unspecified: next_state is never called on a generator of such a configuration.
C17_GeneratorBuildRejectsInvalid ==
    /\ (gen_pc # "builder" /\ check_valid_panics(generator_builder)) =>
            /\ gen_pc = "build_failed"
            /\ generator = NoGenerator
    /\ gen_pc \in {"built", "generated"} =>
            /\ generator.random_lower_bound < generator.random_upper_bound
            /\ generator.dimension > 0
            /\ generator.domain # "Unspecified"

\* C21: update_state, relax_state and the batch call leave the engine's matrix,
\* dimension, domain and limits unchanged; and a step that changes what a spawned
\* worker holds (its rng, index list, states) changes nothing that another worker or
\* the engine reads: no other worker, not the engine's rng, the caller's position,
\* the batch or its partition; on the channel it can only append its own result.
C21_EngineAndWorkersIsolated ==
    [][/\ UNCHANGED <<matrix, domain, maximum_relaxation_iterations,
                      maximum_relaxation_unstable_units, force_symmetric,
                      force_zero_diagonal>>
       /\ dimension' = dimension
       /\ \A w \in Workers :
            (worker[w].pc # "unspawned" /\ worker'[w] # worker[w]) =>
                /\ \A x \in Workers \ {w} : worker'[x] = worker[x]
                /\ UNCHANGED <<rng, pc, op, thread_index, thread_states,
                               state_collection, threads, state_result_collection,
                               output, seq_vars>>
                /\ \/ channel' = channel
                   \/ channel' = Append(channel, <<worker[w].state_index,
                                                   worker[w].state>>)
      ]_vars

\* two workers are in their relaxation loops at once, each on its own state with its
\* own seed and index list, and the first has changed its state
C21_Witness ==
    /\ BatchCall /\ threads = 2
    /\ worker[0].pc = "sweep" /\ worker[1].pc = "sweep"
    /\ worker[0].iteration = 1 /\ worker[1].iteration = 0
    /\ worker[0].state # state_collection[1]
    /\ worker[0].rng_seed # worker[1].rng_seed

\* C22: the engine's rng is advanced only by update_state, by exactly one
\* permutation per call (so relax_state advances it by one permutation per sweep),
\* and by the batch call, by exactly one u64 draw per worker whatever the batch
\* size; no step of a worker and no other step advances it.
C22_EngineRngConsumption ==
    [][/\ (pc = "idle" /\ op' = "update_state") => rng' = AfterPermutations(rng, 1)
       /\ (pc = "idle" /\ op' = "relax_state") => rng' = rng
       /\ pc = "relax" => rng' = AfterPermutations(rng, 1)
       /\ (pc = "idle" /\ op' = "concurrent_relax_state_collection") => rng' = rng
       /\ pc \in {"spawn", "recv", "returned", "failed"} =>
            rng' = IF thread_index' # thread_index THEN RngStep(rng) ELSE rng
       /\ (op' \in {"update_state", "relax_state"}) =>
            rng' = AfterPermutations(rng_at_call', PermutationsDrawn')
       /\ (op' = "concurrent_relax_state_collection") =>
            /\ rng' = RngStepN(rng_at_call', thread_index')
            /\ pc' \in {"recv", "returned"} => rng' = RngStepN(rng_at_call', threads')
      ]_vars

\* a batch call of two workers on one state has returned: a worker has swept twice,
\* and the engine's rng is two draws further
C22_Witness ==
    /\ BatchCall /\ pc = "returned" /\ threads = 2
    /\ Len(state_collection) = 1
    /\ maximum_relaxation_iterations = 2
    /\ worker[0].iteration = 2
    /\ rng = RngStepN(rng_at_call, 2)
    /\ rng # rng_at_call

\* C23: the batch is partitioned round-robin, index k going, tagged k, to worker
\* k mod threads and to no other; every send puts a new index of the sender's share
\* on the channel, above those it has sent before; nothing sent is lost or reordered
\* on the way to the collector; and when the scope has ended without a panic, and
\* when the call returns, the tags gathered are a permutation of 0..m-1.
C23_RoundRobinExactlyOnce ==
    [][/\ (pc = "idle" /\ pc' = "spawn") => RoundRobin'
       /\ Len(Sent') \in {Len(Sent), Len(Sent) + 1}
       /\ \A i \in 1..Len(Sent) : Sent'[i] = Sent[i]
       /\ Len(Sent') > Len(Sent) =>
            \E w \in Workers :
                /\ worker[w].pc = "send" /\ worker'[w] # worker[w]
                /\ Sent'[Len(Sent')] = <<worker[w].state_index, worker[w].state>>
                /\ worker[w].state_index % threads = w
                /\ worker[w].state_index \in 0..(Len(state_collection) - 1)
                /\ \A i \in 1..Len(Sent) :
                    /\ Sent[i][1] # worker[w].state_index
                    /\ Sent[i][1] % threads = w => Sent[i][1] < worker[w].state_index
       /\ (pc = "spawn" /\ pc' = "recv") =>
            TagsArePermutation(Sent', Len(state_collection))
       /\ (pc = "recv" /\ pc' = "returned") =>
            /\ TagsArePermutation(state_result_collection', Len(state_collection))
            /\ channel' = <<>>
      ]_vars

\* a call of two workers on two states has returned, and the collector had gathered
\* the tags in the order 1, 0
C23_Witness ==
    /\ BatchCall /\ pc = "returned" /\ threads = 2
    /\ Len(thread_states[1]) = 1 /\ Len(thread_states[2]) = 1
    /\ thread_states[2][1][1] = 1
    /\ Len(state_result_collection) = 2
    /\ state_result_collection[1][1] = 1 /\ state_result_collection[2][1] = 0

\* C24: with a symmetric matrix of integer weights with a zero diagonal, in the
\* Binary or the Bipolar domain, and a state of the domain passed in: state_energy
\* does not rise at any single-unit step of a sweep of the argument, in any visit
\* order; it does not rise across the update of any single unit of the working
\* state; the working state stays in the domain, its energy is never above the
\* argument's, and no sweep of relax_state raises it.
C24_EnergyNeverRises ==
    [][(/\ IsSymmetric(matrix) /\ HasZeroDiagonal(matrix)
        /\ domain \in {"Binary", "Bipolar"}
        /\ input' \in DomainStates(dimension, domain)) =>
            /\ pc = "idle" =>
                    \A p \in Orders(dimension) :
                        EnergyFallsAlong(input', state_energy_function(matrix, input'), p)
            /\ state' \in DomainStates(dimension, domain)
            /\ \A unit_index \in 0..(dimension - 1) :
                state_energy_function(matrix, UnitUpdate(matrix, domain, state', unit_index))
                    <= state_energy_function(matrix, state')
            /\ state_energy_function(matrix, state')
                    <= state_energy_function(matrix, input')
            /\ pc = "relax" =>
                    state_energy_function(matrix, state')
                        <= state_energy_function(matrix, state)
      ]_vars

\* relax_state has returned after two sweeps on a matrix of dimension 3 with weights
\* of both signs, and each sweep has lowered the energy
C24_Witness ==
    /\ pc = "returned" /\ RelaxCall /\ sweeps = 2 /\ dimension = 3
    /\ IsSymmetric(matrix) /\ HasZeroDiagonal(matrix)
    /\ \E i, j \in 1..3 : matrix[i][j] = 1
    /\ \E i, j \in 1..3 : matrix[i][j] = -1
    /\ input \in DomainStates(dimension, domain)
    /\ \E s \in 0..(RngMod - 1) :
        /\ RngStepN(s, 2 * (dimension - 1)) = rng
        /\ state_energy_function(matrix, update_state(matrix, domain, s, input).state)
                < state_energy_function(matrix, input)
        /\ state_energy_function(matrix, output)
                < state_energy_function(matrix, update_state(matrix, domain, s, input).state)

\* the components of the vector are values of the discrete domain
InDomain(vector) == \A i \in 1..Len(vector) : vector[i] \in UnitValues(domain)

\* C25: for a Binary (Bipolar) network with at least one relaxation iteration, every
\* state returned by update_state, relax_state and concurrent_relax_state_collection
\* has the length of the argument and all its components in {0, 1} ({-1, 1}),
\* whatever the matrix and whatever the components of the argument.
C25_ReturnedStatesInDomain ==
    (/\ domain \in {"Binary", "Bipolar"}
     /\ maximum_relaxation_iterations >= 1
     /\ pc = "returned") =>
        IF BatchCall
        THEN /\ Len(output) = Len(state_collection)
             /\ \A k \in 1..Len(output) :
                    Len(output[k]) = dimension /\ InDomain(output[k])
        ELSE Len(output) = dimension /\ InDomain(output)

\* a batch call of two workers has returned two states of the domain for two
\* arguments that had no component in the domain, and a call of two workers is the
\* only way to get there
C25_Witness ==
    /\ BatchCall /\ pc = "returned" /\ threads = 2 /\ domain = "Bipolar"
    /\ maximum_relaxation_iterations >= 1
    /\ Len(state_collection) = 2
    /\ \A k \in 1..2 : \A i \in 1..dimension :
        state_collection[k][i] \notin UnitValues(domain)
    /\ \A k \in 1..2 : InDomain(output[k])
    /\ output[1] # output[2]

\* the batch call was made with threads = 0
ZeroThreadsCall == BatchCall /\ threads = 0

\* C26: concurrent_relax_state_collection called with threads = 0 and a batch that is
\* not empty fails, and never returns; it has then spawned no worker, drawn no seed
\* from the engine's rng and sent or gathered no result. Called with threads = 0 and
\* an empty batch it does not fail and, the caller's thread being scheduled, returns
\* the empty vector; no call with threads = 0 is left waiting.
C26_ZeroThreads ==
    /\ [](ZeroThreadsCall =>
            /\ \A w \in Workers : worker[w].pc = "unspawned"
            /\ rng = rng_at_call
            /\ thread_index = 0
            /\ channel = <<>> /\ state_result_collection = <<>>
            /\ output = <<>>
            /\ state_collection # <<>> => pc = "failed"
            /\ state_collection = <<>> => pc \in {"spawn", "recv", "returned"})
    /\ (ZeroThreadsCall /\ state_collection = <<>>)
            ~> (ZeroThreadsCall /\ pc = "returned" /\ output = <<>>)

\* the call with threads = 0 on a batch of two states has failed
C26_Witness ==
    /\ ZeroThreadsCall /\ pc = "failed" /\ Len(state_collection) = 2
    /\ rng = rng_at_call /\ worker[0].pc = "unspawned"

====
